---- MODULE Spec2Model ----
(***************************************************************************)
(* FruitVision backend (src/app.py): the request handlers /health,         *)
(* /detect, /segment, /process-video, the /ws streaming endpoint and the   *)
(* startup/shutdown hooks, as a state machine of asyncio tasks.  A task    *)
(* runs without interruption between two awaits, so every action below is  *)
(* the code from one await to the next.                                    *)
(***************************************************************************)
EXTENDS Integers, Sequences, FiniteSets, TLC

\* ------------------------------------------------------------------ bounds
MaxFrames == 2          \* frames in an uploaded video container
MaxDet == 1             \* detections / objects an engine returns for one frame
MaxMsgs == 2            \* inbound messages read on one streaming session
MaxShutdowns == 2       \* invocations of the shutdown hook

\* ------------------------------------------------------------ task identities
ImageTasks == {"i1"}
VideoTasks == {"v1", "v2"}
Sessions == {"s1", "s2"}
Filenames == {"a.mp4", "b.mp4"}

VARIABLES
    detector,      \* module global `detector`: None or the loaded handle
    segmenter,     \* module global `segmenter`
    startup,       \* startup hook: "pending", "done" or "failed"
    shutdowns,     \* number of times the shutdown hook has run
    cleanups,      \* cleanup() calls received by each engine
    health,        \* last /health response
    img,           \* the /detect and /segment request tasks
    vid,           \* the /process-video request tasks
    disk,          \* the working directory: path -> content
    ws,            \* the /ws endpoint tasks
    active         \* manager's active connection set

vars == <<detector, segmenter, startup, shutdowns, cleanups, health,
          img, vid, disk, ws, active>>
registryVars == <<detector, segmenter, startup, shutdowns, cleanups, health>>

\* ------------------------------------------------------------ engine handles
None == "None"
Loaded == "Loaded"

\* Python truthiness of a handle (`if not detector`, `if detector`).
Truthy(handle) == handle # None

\* ---------------------------------------------------------------- responses
NoResponse == [status |-> 0, success |-> FALSE]
HTTPException(code) == [status |-> code, success |-> FALSE]

\* -------------------------------------------------------- external engines
\* What a call detector.detect(frame) / segmenter.segment(frame) can do: raise,
\* or return a result carrying n detections (objects).  The engines are opaque,
\* also when handed an absent frame.
Raised == [ok |-> FALSE, n |-> 0]
Returned(n) == [ok |-> TRUE, n |-> n]
EngineOutcomes == {Raised} \cup {Returned(n) : n \in 0..MaxDet}

\* ------------------------------------------------------------- media codec
\* Encoded media are byte strings.  cv2.imdecode returns a frame for a buffer
\* that starts with an image signature, None for any other non-empty buffer,
\* and on an empty buffer raises or returns None depending on the OpenCV build.
PngMagic == 137
NoFrame == [present |-> FALSE, shape |-> <<0, 0>>]
Frame(rows, cols) == [present |-> TRUE, shape |-> <<rows, cols>>]
ImageUploads == {<<PngMagic, 1, 2>>, <<0, 1, 2>>, <<>>}

DecodeOutcomes(buf) ==
    IF buf = <<>>
    THEN {[raised |-> TRUE, frame |-> NoFrame], [raised |-> FALSE, frame |-> NoFrame]}
    ELSE IF buf[1] = PngMagic /\ Len(buf) = 3
         THEN {[raised |-> FALSE, frame |-> Frame(buf[2], buf[3])]}
         ELSE {[raised |-> FALSE, frame |-> NoFrame]}

WellFormed(buf) == \A d \in DecodeOutcomes(buf) : ~d.raised /\ d.frame.present
\* ------------------------------------------------------------ model registry
\* startup_event: the detector is loaded, then the segmenter.  A constructor that
\* raises leaves the globals assigned so far and fails the startup hook.
StartupOutcomes == {"ok", "detector_fails", "segmenter_fails"}

startup_event ==
    /\ startup = "pending"
    /\ \E o \in StartupOutcomes :
         /\ detector' = IF o = "detector_fails" THEN detector ELSE Loaded
         /\ segmenter' = IF o = "ok" THEN Loaded ELSE segmenter
         /\ startup' = IF o = "ok" THEN "done" ELSE "failed"
    /\ UNCHANGED <<shutdowns, cleanups, health, img, vid, disk, ws, active>>

\* A shutdown hook that clears the handles once it has cleaned them up.
shutdown_event_reset ==
    /\ startup = "done"
    /\ shutdowns < MaxShutdowns
    /\ shutdowns' = shutdowns + 1
    /\ cleanups' = [cleanups EXCEPT
                      !.detector = IF Truthy(detector) THEN @ + 1 ELSE @,
                      !.segmenter = IF Truthy(segmenter) THEN @ + 1 ELSE @]
    /\ detector' = None
    /\ segmenter' = None
    /\ UNCHANGED <<startup, health, img, vid, disk, ws, active>>

\* shutdown_event: cleanup() on every handle that is set; the handles stay.
shutdown_event ==
    /\ startup = "done"
    /\ shutdowns < MaxShutdowns
    /\ shutdowns' = shutdowns + 1
    /\ cleanups' = [cleanups EXCEPT
                      !.detector = IF Truthy(detector) THEN @ + 1 ELSE @,
                      !.segmenter = IF Truthy(segmenter) THEN @ + 1 ELSE @]
    /\ UNCHANGED <<detector, segmenter, startup, health, img, vid, disk, ws, active>>

health_check ==
    /\ health' = [status |-> 200,
                  detector_loaded |-> detector # None,
                  segmenter_loaded |-> segmenter # None]
    /\ UNCHANGED <<detector, segmenter, startup, shutdowns, cleanups,
                   img, vid, disk, ws, active>>

\* ------------------------------------------------- /detect and /segment
IdleImage == [pc |-> "idle", kind |-> "none", contents |-> <<>>, decoded |-> FALSE,
              calls |-> <<>>, resp |-> NoResponse]

EngineCall(engine, frame, o) == [engine |-> engine, frame |-> frame, ok |-> o.ok, n |-> o.n]

\* A handler that skips its readiness check.
ImageReadyAlways(kind) == TRUE

\* The readiness check of a single-image handler: 503 when its handle is falsy.
ImageReady(kind) == IF kind = "detect" THEN Truthy(detector) ELSE Truthy(segmenter)

\* Lines 83-84 / 107-108, up to `await file.read()`.
ImageBegin(t, kind, buf) ==
    /\ img[t].pc = "idle"
    /\ img' = [img EXCEPT ![t] =
                 IF ImageReady(kind)
                 THEN [@ EXCEPT !.pc = "reading", !.kind = kind, !.contents = buf]
                 ELSE [@ EXCEPT !.pc = "done", !.kind = kind, !.contents = buf,
                                !.resp = HTTPException(503)]]
    /\ UNCHANGED <<registryVars, vid, disk, ws, active>>

\* The try block of detect_fruits after the read: decode, detect, build the
\* response; any exception becomes a 400.  d is the codec's outcome on the
\* upload, o the detector's outcome on the decoded frame.
DetectBody(handle, d, o) ==
    IF d.raised
    THEN [decoded |-> FALSE, calls |-> <<>>, resp |-> HTTPException(400)]
    ELSE IF handle = None                       \* None has no attribute detect
    THEN [decoded |-> TRUE, calls |-> <<>>, resp |-> HTTPException(400)]
    ELSE LET call == <<EngineCall("detector", d.frame, o)>> IN
         IF ~o.ok
         THEN [decoded |-> TRUE, calls |-> call, resp |-> HTTPException(400)]
         ELSE IF ~d.frame.present               \* None has no attribute shape
         THEN [decoded |-> TRUE, calls |-> call, resp |-> HTTPException(400)]
         ELSE [decoded |-> TRUE, calls |-> call,
               resp |-> [status |-> 200, success |-> TRUE, detections |-> o.n,
                         image_shape |-> <<d.frame.shape[2], d.frame.shape[1]>>]]

\* The try block of segment_fruits: the response does not read the image.
SegmentBody(handle, d, o) ==
    IF d.raised
    THEN [decoded |-> FALSE, calls |-> <<>>, resp |-> HTTPException(400)]
    ELSE IF handle = None
    THEN [decoded |-> TRUE, calls |-> <<>>, resp |-> HTTPException(400)]
    ELSE LET call == <<EngineCall("segmenter", d.frame, o)>> IN
         IF ~o.ok
         THEN [decoded |-> TRUE, calls |-> call, resp |-> HTTPException(400)]
         ELSE [decoded |-> TRUE, calls |-> call,
               resp |-> [status |-> 200, success |-> TRUE, num_objects |-> o.n]]

ImageRun(t) ==
    /\ img[t].pc = "reading"
    /\ \E d \in DecodeOutcomes(img[t].contents), o \in EngineOutcomes :
         LET r == IF img[t].kind = "detect"
                  THEN DetectBody(detector, d, o)
                  ELSE SegmentBody(segmenter, d, o)
         IN img' = [img EXCEPT ![t] = [@ EXCEPT !.pc = "done", !.decoded = r.decoded,
                                                !.calls = r.calls, !.resp = r.resp]]
    /\ UNCHANGED <<registryVars, vid, disk, ws, active>>

detect_fruits(t) ==
    \/ \E buf \in ImageUploads : ImageBegin(t, "detect", buf)
    \/ img[t].kind = "detect" /\ ImageRun(t)

segment_fruits(t) ==
    \/ \E buf \in ImageUploads : ImageBegin(t, "segment", buf)
    \/ img[t].kind = "segment" /\ ImageRun(t)
\* ------------------------------------------------------------ /process-video
\* An uploaded file: a video container holding nframes frames, or bytes no
\* reader can open (garbage, or nothing at all).
Video(n) == [readable |-> TRUE, empty |-> FALSE, nframes |-> n]
Garbage == [readable |-> FALSE, empty |-> FALSE, nframes |-> 0]
Empty == [readable |-> FALSE, empty |-> TRUE, nframes |-> 0]
VideoUploads == {Garbage} \cup {Video(n) : n \in 0..MaxFrames}

\* What cap.get() reports for a container that opened, and for one that did not.
ContainerProps == [fps |-> 30, width |-> 640, height |-> 480]
NoProps == [fps |-> 0, width |-> 0, height |-> 0]

\* Paths in the working directory.
TempPath(filename) == <<"temp", filename>>
OutputPath(filename) == <<"output", filename>>
Paths == {TempPath(f) : f \in Filenames} \cup {OutputPath(f) : f \in Filenames}
Absent == [exists |-> FALSE, data |-> Empty]
File(data) == [exists |-> TRUE, data |-> data]

IdleVideo == [pc |-> "idle", filename |-> "a.mp4", upload |-> Empty,
              enable_segmentation |-> FALSE, fd |-> "none",
              cap |-> "none", out |-> "none", frames_read |-> 0,
              detections_list |-> <<>>, calls |-> <<>>, resp |-> NoResponse]

\* A handler that opens its temp file before it looks at the detector.
OpenTempAlways(ready, d, filename) == [d EXCEPT ![TempPath(filename)] = File(Empty)]

\* Lines 130-136: open(temp_path, "wb") is reached only past the readiness
\* check; it creates the file or truncates the one there.
OpenTemp(ready, d, filename) ==
    IF ready THEN [d EXCEPT ![TempPath(filename)] = File(Empty)] ELSE d

\* Lines 130-137 up to `await file.read()`: the readiness check, then
\* open(temp_path, "wb"), which creates the file or truncates the one there.
VideoBegin(t, filename, upload, flag) ==
    /\ vid[t].pc = "idle"
    /\ IF Truthy(detector)
       THEN /\ vid' = [vid EXCEPT ![t] = [@ EXCEPT !.pc = "reading", !.filename = filename,
                                                   !.upload = upload,
                                                   !.enable_segmentation = flag,
                                                   !.fd = "open"]]
            /\ disk' = OpenTemp(TRUE, disk, filename)
       ELSE /\ vid' = [vid EXCEPT ![t] = [@ EXCEPT !.pc = "done", !.filename = filename,
                                                   !.upload = upload,
                                                   !.enable_segmentation = flag,
                                                   !.resp = HTTPException(503)]]
            /\ disk' = OpenTemp(FALSE, disk, filename)
    /\ UNCHANGED <<registryVars, img, ws, active>>

\* f.write() through a descriptor opened at offset 0.  Into the empty file the
\* bytes land as they are.  Into a file another task filled meanwhile they
\* overlay its head: the same bytes leave it as it is, other bytes give the
\* upload or, when a tail of the old bytes stays behind it, a broken container.
WriteResults(old, upload) ==
    IF old.empty \/ old = upload THEN {upload}
    ELSE IF ~upload.readable THEN {Garbage}
    ELSE {upload, Garbage}

\* append() in place of extend(): one entry per frame, whatever was detected.
ExtendDetectionsAppend(list, k, n) == Append(list, k)

\* insert at the head in place of extend(): later frames come first.
ExtendDetectionsFront(list, k, n) == [i \in 1..n |-> k] \o list

\* detections_list.extend(results["detections"]): one entry per detection,
\* each remembered with the index of the frame it was found on.
ExtendDetections(list, k, n) == list \o [i \in 1..n |-> k]

\* Lines 154-163.  outs[k + 1] is what the detector does with frame k.
\* cap.read() hands out the container's frames in order and fails at its end.
RECURSIVE FrameLoop(_, _, _)
FrameLoop(nframes, outs, st) ==
    IF st.frames_read >= nframes THEN st
    ELSE LET k == st.frames_read
             o == outs[k + 1]
             call == EngineCall("detector", k, o)
         IN IF ~o.ok
            THEN [st EXCEPT !.frames_read = @ + 1, !.calls = Append(@, call),
                            !.raised = TRUE]
            ELSE FrameLoop(nframes, outs,
                    [st EXCEPT !.frames_read = @ + 1, !.calls = Append(@, call),
                               !.detections_list = ExtendDetections(@, k, o.n),
                               !.frame_count = @ + 1])

LoopStart == [frame_count |-> 0, detections_list |-> <<>>, frames_read |-> 0,
              calls |-> <<>>, raised |-> FALSE]

\* The handler's exit after a loop that did not raise: lines 165-177.
\* os.remove raises when the path is gone, and the except clause answers 400.
VideoExit(removable, output_path, st, props) ==
    IF removable
    THEN [status |-> 200, success |-> TRUE, output_file |-> output_path,
          total_frames |-> st.frame_count,
          total_detections |-> Len(st.detections_list),
          fps |-> props.fps, resolution |-> <<props.width, props.height>>]
    ELSE HTTPException(400)

\* An except clause that answers with what the loop gathered before the failure.
VideoExceptPartial(st) ==
    [status |-> 200, success |-> TRUE, output_file |-> <<>>,
     total_frames |-> st.frame_count, total_detections |-> Len(st.detections_list),
     fps |-> 0, resolution |-> <<0, 0>>]

\* The except clause of process_video (lines 178-179) after the loop raised.
VideoExcept(st) == HTTPException(400)

\* Lines 137-179 after the await: everything to the handler's return runs
\* without another await.
VideoRun(t) ==
    /\ vid[t].pc = "reading"
    /\ LET v == vid[t]
           temp_path == TempPath(v.filename)
           output_path == OutputPath(v.filename)
       IN \E w \in WriteResults(disk[temp_path].data, v.upload) :
          LET d1 == IF v.fd = "open"
                    THEN [disk EXCEPT ![temp_path] = File(w)]
                    ELSE disk
              opened == d1[temp_path].exists /\ d1[temp_path].data.readable
              props == IF opened THEN ContainerProps ELSE NoProps
              writing == props.fps > 0 /\ props.width > 0 /\ props.height > 0
              d2 == IF writing THEN [d1 EXCEPT ![output_path] = File(Video(0))] ELSE d1
              nframes == IF opened THEN d1[temp_path].data.nframes ELSE 0
          IN \E outs \in [1..nframes -> EngineOutcomes] :
             LET st == FrameLoop(nframes, outs, LoopStart)
                 removable == d2[temp_path].exists
                 removed == ~st.raised /\ removable
             IN /\ disk' = IF removed THEN [d2 EXCEPT ![temp_path] = Absent] ELSE d2
                /\ vid' = [u \in VideoTasks |->
                            IF u = t
                            THEN [v EXCEPT !.pc = "done", !.fd = "closed",
                                    !.cap = IF st.raised THEN "open" ELSE "released",
                                    !.out = IF st.raised THEN "open" ELSE "released",
                                    !.frames_read = st.frames_read,
                                    !.detections_list = st.detections_list,
                                    !.calls = st.calls,
                                    !.resp = IF st.raised THEN VideoExcept(st)
                                             ELSE VideoExit(removable, output_path, st, props)]
                            ELSE IF removed /\ vid[u].pc = "reading" /\ vid[u].fd = "open"
                                    /\ vid[u].filename = v.filename
                            THEN [vid[u] EXCEPT !.fd = "orphan"]
                            ELSE vid[u]]
    /\ UNCHANGED <<registryVars, img, ws, active>>

process_video(t) ==
    \/ \E f \in Filenames, u \in VideoUploads, flag \in BOOLEAN : VideoBegin(t, f, u, flag)
    \/ VideoRun(t)

\* ---------------------------------------------------------------- /ws
\* ConnectionManager: accept the socket and keep it in the active set; drop it
\* from the set on disconnect.
ManagerConnect(set, s) == set \cup {s}
ManagerDisconnect(set, s) == set \ {s}

\* bytes.fromhex: two hex digits per byte; a string of odd length or with any
\* other character is a ValueError.
HexDigits == <<"0", "1", "2", "3", "4", "5", "6", "7", "8", "9",
               "a", "b", "c", "d", "e", "f">>
IsHexDigit(c) == \E i \in 1..Len(HexDigits) : HexDigits[i] = c
HexValue(c) == (CHOOSE i \in 1..Len(HexDigits) : HexDigits[i] = c) - 1
FromHex(str) ==
    IF Len(str) % 2 = 0 /\ \A i \in 1..Len(str) : IsHexDigit(str[i])
    THEN [ok |-> TRUE,
          bytes |-> [i \in 1..(Len(str) \div 2) |->
                       16 * HexValue(str[2 * i - 1]) + HexValue(str[2 * i])]]
    ELSE [ok |-> FALSE, bytes |-> <<>>]

\* Inbound JSON messages: the keys the object has, its "type" and its "frame".
Message(keys, type, frame) == [keys |-> keys, type |-> type, frame |-> frame]
HexPayloads == {<<"8", "9", "0", "1", "0", "2">>,     \* an image
                <<"0", "0">>,                         \* bytes that are no image
                <<>>,                                 \* no bytes
                <<"8">>, <<"z", "z">>}                \* not hex
Messages ==
    {Message({"type", "frame"}, "frame", p) : p \in HexPayloads}
    \cup {Message({"type"}, "frame", <<>>),           \* a frame without payload
          Message({"type"}, "ping", <<>>),            \* another kind
          Message({}, "", <<>>)}                      \* no kind at all
NoData == Message({}, "none", <<>>)

NewSession == [pc |-> "connecting", transport |-> "up", data |-> NoData,
               nrecv |-> 0, ndecoded |-> 0, ndetect |-> 0, pending |-> 0,
               sent |-> <<>>]

\* Line 184: the handshake is accepted and the session registered.
WsConnect(s) ==
    /\ ws[s].pc = "connecting"
    /\ ws' = [ws EXCEPT ![s].pc = "open"]
    /\ active' = ManagerConnect(active, s)
    /\ UNCHANGED <<registryVars, img, vid, disk>>

\* The peer goes away or the transport breaks; the endpoint task learns of it
\* at its next receive or send.
TransportFailure(s) ==
    /\ ws[s].pc \in {"open", "sending"}
    /\ ws[s].transport = "up"
    /\ ws' = [ws EXCEPT ![s].transport = "down"]
    /\ UNCHANGED <<registryVars, img, vid, disk, active>>

\* An except clause that forgets to deregister, and one that drops every session.
HandlerExceptKeep(set, s) == set
HandlerExceptAll(set, s) == {}

\* Lines 207-209: the except clause deregisters this session; the loop is over.
HandlerExcept(set, s) == ManagerDisconnect(set, s)

\* A loop body that answers whatever it reads, frame or not.
LoopBodyAnswerAll(m, handle, d, o) ==
    IF "type" \notin m.keys
    THEN [next |-> "except", decoded |-> FALSE, detected |-> FALSE]
    ELSE [next |-> "send", decoded |-> FALSE, detected |-> FALSE]

\* Lines 189-203 for one inbound message: what the loop body does with it up to
\* its next await.  d is the codec's outcome on the payload bytes, o the
\* detector's outcome on the frame.
LoopBody(m, handle, d, o) ==
    IF "type" \notin m.keys
    THEN [next |-> "except", decoded |-> FALSE, detected |-> FALSE]   \* KeyError
    ELSE IF m.type # "frame"
    THEN [next |-> "receive", decoded |-> FALSE, detected |-> FALSE]
    ELSE IF "frame" \notin m.keys
    THEN [next |-> "except", decoded |-> FALSE, detected |-> FALSE]   \* KeyError
    ELSE IF ~FromHex(m.frame).ok
    THEN [next |-> "except", decoded |-> FALSE, detected |-> FALSE]   \* ValueError
    ELSE IF d.raised
    THEN [next |-> "except", decoded |-> FALSE, detected |-> FALSE]   \* cv2.error
    ELSE IF handle = None
    THEN [next |-> "except", decoded |-> TRUE, detected |-> FALSE]    \* AttributeError
    ELSE IF ~o.ok
    THEN [next |-> "except", decoded |-> TRUE, detected |-> TRUE]
    ELSE [next |-> "send", decoded |-> TRUE, detected |-> TRUE]

\* A loop that goes back to receiving while its response is still to be sent.
AfterBodyNoWait(next) == IF next = "except" THEN "closed" ELSE "open"

\* Where the endpoint task stands after a loop body.
AfterBody(next) ==
    CASE next = "receive" -> "open"
      [] next = "send" -> "sending"
      [] next = "except" -> "closed"

\* Line 187 and the loop body behind it: receive_json raises on a broken
\* transport, else hands over the next message of the peer.
WsReceive(s) ==
    /\ ws[s].pc = "open"
    /\ IF ws[s].transport = "down"
       THEN /\ ws' = [ws EXCEPT ![s].pc = "closed"]
            /\ active' = HandlerExcept(active, s)
       ELSE /\ ws[s].nrecv < MaxMsgs
            /\ \E m \in Messages, o \in EngineOutcomes :
               \E d \in DecodeOutcomes(FromHex(m.frame).bytes) :
                 LET r == LoopBody(m, detector, d, o)
                     k == ws[s].nrecv + 1
                 IN /\ ws' = [ws EXCEPT ![s] =
                               [@ EXCEPT !.pc = AfterBody(r.next), !.data = m, !.nrecv = k,
                                  !.ndecoded = IF r.decoded THEN @ + 1 ELSE @,
                                  !.ndetect = IF r.detected THEN @ + 1 ELSE @,
                                  !.pending = IF r.next = "send" THEN k ELSE 0]]
                    /\ active' = IF r.next = "except" THEN HandlerExcept(active, s)
                                 ELSE active
    /\ UNCHANGED <<registryVars, img, vid, disk>>

\* Line 205: the response goes out.  On a broken transport send_json raises,
\* or (server stacks that drop writes to a closed socket) returns with nothing
\* delivered, and the next receive_json raises.
WsSend(s) ==
    /\ ws[s].pc = "sending"
    /\ IF ws[s].transport = "down"
       THEN \/ /\ ws' = [ws EXCEPT ![s].pc = "closed", ![s].pending = 0]
               /\ active' = HandlerExcept(active, s)
            \/ /\ ws' = [ws EXCEPT ![s].pc = "open", ![s].pending = 0]
               /\ active' = active
       ELSE /\ ws' = [ws EXCEPT ![s].pc = "open", ![s].pending = 0,
                                ![s].sent = Append(@, [type |-> "detection_results",
                                                       re |-> ws[s].pending])]
            /\ active' = active
    /\ UNCHANGED <<registryVars, img, vid, disk>>

websocket_endpoint(s) ==
    \/ WsConnect(s)
    \/ WsReceive(s)
    \/ WsSend(s)

\* --------------------------------------------------------------- behaviours
Init ==
    /\ detector = None
    /\ segmenter = None
    /\ startup = "pending"
    /\ shutdowns = 0
    /\ cleanups = [detector |-> 0, segmenter |-> 0]
    /\ health = [status |-> 0, detector_loaded |-> FALSE, segmenter_loaded |-> FALSE]
    /\ img = [t \in ImageTasks |-> IdleImage]
    /\ vid = [t \in VideoTasks |-> IdleVideo]
    /\ disk = [p \in Paths |-> Absent]
    /\ ws = [s \in Sessions |-> NewSession]
    /\ active = {}

\* One request of each HTTP kind, at any time relative to startup.
Next ==
    \/ startup_event
    \/ \E t \in ImageTasks : detect_fruits(t)
    \/ \E t \in ImageTasks : segment_fruits(t)
    \/ process_video("v1")

Spec == Init /\ [][Next]_vars

\* Concurrent /process-video requests.
NextVideo ==
    \/ startup_event
    \/ \E t \in VideoTasks : process_video(t)

SpecVideo == Init /\ [][NextVideo]_vars

\* Concurrent streaming sessions.
NextStream ==
    \/ startup_event
    \/ \E s \in Sessions : websocket_endpoint(s)
    \/ \E s \in Sessions : TransportFailure(s)

SpecStream == Init /\ [][NextStream]_vars

\* The event loop runs every task that can take a step.
FairSpecStream ==
    SpecStream /\ \A s \in Sessions : WF_vars(websocket_endpoint(s))

\* The registry's life cycle under single-image requests.
NextRegistry ==
    \/ startup_event
    \/ shutdown_event
    \/ health_check
    \/ \E t \in ImageTasks : detect_fruits(t)
    \/ \E t \in ImageTasks : segment_fruits(t)

SpecRegistry == Init /\ [][NextRegistry]_vars

\* Every handler and hook of the application, its clients served one kind at
\* a time: single-image requests, a video request, or a streaming session.
OnlyImages == vid["v1"].pc = "idle" /\ ws["s1"].pc = "connecting"
OnlyVideo == (\A t \in ImageTasks : img[t].pc = "idle") /\ ws["s1"].pc = "connecting"
OnlyStream == (\A t \in ImageTasks : img[t].pc = "idle") /\ vid["v1"].pc = "idle"

NextApp ==
    \/ startup_event
    \/ shutdown_event
    \/ health_check
    \/ OnlyImages /\ \E t \in ImageTasks : detect_fruits(t)
    \/ OnlyImages /\ \E t \in ImageTasks : segment_fruits(t)
    \/ OnlyVideo /\ process_video("v1")
    \/ OnlyStream /\ websocket_endpoint("s1")
    \/ OnlyStream /\ TransportFailure("s1")

SpecApp == Init /\ [][NextApp]_vars
\* ------------------------------------------------------------------- claims
Done(t) == vid[t].pc = "done"
EngineFailed(calls) == \E i \in 1..Len(calls) : ~calls[i].ok

RECURSIVE SumDetections(_)
SumDetections(calls) ==
    IF calls = <<>> THEN 0
    ELSE (IF Head(calls).ok THEN Head(calls).n ELSE 0) + SumDetections(Tail(calls))

\* C1: once a /process-video handler that passed the readiness check and
\* persisted its upload has returned, its temp input file is not on disk,
\* on every exit path.
C1_TempInputRemoved ==
    Done("v1") /\ vid["v1"].resp.status # 503
        => ~disk[TempPath(vid["v1"].filename)].exists

\* C2: a /detect (/segment) request that finds the detector (segmenter) handle
\* absent is answered 503 at once, whatever the upload; no response of 503 ever
\* comes with a decoded input or an engine call.
C2_UnavailableWhenAbsent ==
    /\ [][\A t \in ImageTasks :
            /\ img[t].pc = "idle" /\ img'[t].pc # "idle"
            /\ \/ img'[t].kind = "detect" /\ detector = None
               \/ img'[t].kind = "segment" /\ segmenter = None
            => /\ img'[t].pc = "done"
               /\ img'[t].resp.status = 503
               /\ img'[t].calls = <<>>
               /\ ~img'[t].decoded]_vars
    /\ [](\A t \in ImageTasks :
            img[t].resp.status = 503 => img[t].calls = <<>> /\ ~img[t].decoded)

C2_Witness ==
    \E t \in ImageTasks :
        /\ img[t].pc = "done" /\ img[t].kind = "segment"
        /\ ~WellFormed(img[t].contents)
        /\ img[t].resp.status = 503

\* C8: with its engine loaded, /detect and /segment answer malformed image
\* bytes with 400, whatever the engine does with the absent frame.
C8_MalformedIsClientError ==
    \A t \in ImageTasks :
        img[t].pc = "done" /\ ~WellFormed(img[t].contents) /\ img[t].resp.status # 503
            => img[t].resp.status = 400

\* C9: a successful /process-video response reports as total_frames the number
\* of frames read from the container and as total_detections the sum of the
\* detection counts the detector returned for them.
C9_TotalsMatch ==
    \A t \in VideoTasks :
        Done(t) /\ vid[t].resp.status = 200
            => /\ vid[t].resp.total_frames = vid[t].frames_read
               /\ vid[t].resp.total_frames = Len(vid[t].calls)
               /\ vid[t].resp.total_detections = SumDetections(vid[t].calls)

C9_Witness ==
    \E t \in VideoTasks :
        /\ Done(t) /\ vid[t].resp.status = 200
        /\ vid[t].resp.total_frames = 2
        /\ vid[t].resp.total_detections = 1

\* C10: a request during which an engine call raised ends with an error
\* response, never with a success; every success rests on completed calls only.
C10_NoPartialSuccess ==
    /\ \A t \in ImageTasks :
          img[t].pc = "done" /\ EngineFailed(img[t].calls)
              => img[t].resp.status = 400 /\ ~img[t].resp.success
    /\ Done("v1") /\ EngineFailed(vid["v1"].calls)
          => vid["v1"].resp.status = 400 /\ ~vid["v1"].resp.success

C10_Witness ==
    /\ Done("v1")
    /\ Len(vid["v1"].calls) = 2
    /\ vid["v1"].calls[1].ok /\ ~vid["v1"].calls[2].ok
    /\ vid["v1"].resp.status = 400

\* Streaming sessions.
IsFrameKind(m) == "type" \in m.keys /\ m.type = "frame"
MalformedPayload(m) ==
    /\ "frame" \in m.keys
    /\ \/ ~FromHex(m.frame).ok
       \/ ~WellFormed(FromHex(m.frame).bytes)
Received(s) == ws'[s].nrecv = ws[s].nrecv + 1
Response(k) == [type |-> "detection_results", re |-> k]

\* C3: on a session at most one frame is in flight: a message is read only
\* when no response is pending, every response answers the latest message
\* read, and the responses go out in the order of their frames.
C3_OneInFlight ==
    /\ [](\A s \in Sessions :
            /\ ws[s].pending # 0 => ws[s].pending = ws[s].nrecv /\ ws[s].pc = "sending"
            /\ \A i, j \in 1..Len(ws[s].sent) :
                  i < j => ws[s].sent[i].re < ws[s].sent[j].re)
    /\ [][\A s \in Sessions :
            /\ Received(s) => ws[s].pending = 0
            /\ ws'[s].sent # ws[s].sent
                  => ws'[s].sent = Append(ws[s].sent, Response(ws[s].nrecv))]_vars

C3_Witness ==
    \E s \in Sessions : ws[s].sent = <<Response(1), Response(2)>>

\* C4: after a transport failure on an open session the session is eventually
\* out of the active set, and once it is, nothing more is read, decoded,
\* detected or answered on it and it never comes back.
C4_FailureEndsSession ==
    /\ \A s \in Sessions : (ws[s].transport = "down") ~> (s \notin active)
    /\ [][\A s \in Sessions :
            ws[s].transport = "down" /\ s \notin active
                => ws'[s] = ws[s] /\ s \notin active']_vars

C4_Witness ==
    \E s \in Sessions :
        /\ ws[s].transport = "down" /\ s \notin active /\ ws[s].pc = "closed"
        /\ ws[s].nrecv = 1 /\ Len(ws[s].sent) = 0 /\ ws[s].ndetect = 1

\* C5: a frame message with a malformed payload, or one read while the detector
\* is absent, closes the session: deregistered, nothing sent, loop over.
C5_BadFrameCloses ==
    [][\A s \in Sessions :
         Received(s) /\ IsFrameKind(ws'[s].data)
           /\ (MalformedPayload(ws'[s].data) \/ detector = None)
         => /\ ws'[s].pc = "closed"
            /\ s \notin active'
            /\ ws'[s].pending = 0
            /\ ws'[s].sent = ws[s].sent]_vars

\* C6: a message of another kind, or with no kind, leaves the session open
\* and registered.
C6_OtherKindContinues ==
    \A s \in Sessions :
        ws[s].nrecv > 0 /\ ~IsFrameKind(ws[s].data) /\ ws[s].transport = "up"
            => ws[s].pc = "open" /\ s \in active

\* C7: a step of one session, its error or close included, takes no other
\* session with it: the others keep their place in the active set and their
\* state, and every session is in the set exactly while it is open.
C7_SessionsIndependent ==
    /\ [](\A s \in Sessions : s \in active <=> ws[s].pc \in {"open", "sending"})
    /\ [][\A s, t \in Sessions :
            s # t /\ (ws'[s] # ws[s] \/ (s \in active /\ s \notin active'))
                => (t \in active <=> t \in active') /\ ws'[t] = ws[t]]_vars

C7_Witness ==
    \E s, t \in Sessions :
        /\ s # t
        /\ ws[s].pc = "closed" /\ s \notin active /\ ws[s].nrecv > 0
        /\ t \in active /\ ws[t].pc = "open" /\ ws[t].sent = <<Response(1), Response(2)>>
\* C11: a failing engine load does not fail the startup hook: startup
\* completes, the engine that failed reads as not loaded, and every request
\* to an endpoint of an engine that is not loaded is answered 503.
C11_StartupSurvivesLoadFailure ==
    /\ startup # "failed"
    /\ startup = "done" /\ health.status = 200
          => health.detector_loaded = (detector # None)
    /\ \A t \in ImageTasks :
          /\ img[t].pc = "done" /\ img[t].kind = "detect" /\ detector = None
                => img[t].resp.status = 503
          /\ img[t].pc = "done" /\ img[t].kind = "segment" /\ segmenter = None
                => img[t].resp.status = 503

\* C12: however often the shutdown hook runs after a successful startup, each
\* engine's cleanup() has run exactly once.
C12_CleanupExactlyOnce ==
    shutdowns >= 1 => cleanups.detector = 1 /\ cleanups.segmenter = 1

\* C13: a /process-video upload whose container cannot be opened is answered
\* 400, never with a success.
C13_UnreadableVideoRejected ==
    Done("v1") /\ ~vid["v1"].upload.readable /\ vid["v1"].resp.status # 503
        => vid["v1"].resp.status = 400 /\ ~vid["v1"].resp.success
\* C14: two /process-video requests in flight at once never share a temp
\* input path, and each ends as it would alone: an upload whose container is
\* readable and whose frames the detector all handled is answered 200 with
\* the frame count of that upload.
InFlight(t) == vid[t].pc = "reading"
C14_NoSharedFiles ==
    /\ \A t, u \in VideoTasks :
          t # u /\ InFlight(t) /\ InFlight(u)
              => /\ TempPath(vid[t].filename) # TempPath(vid[u].filename)
                 /\ OutputPath(vid[t].filename) # OutputPath(vid[u].filename)
    /\ \A t \in VideoTasks :
          Done(t) /\ vid[t].upload.readable /\ ~EngineFailed(vid[t].calls)
                  /\ vid[t].resp.status # 503
              => /\ vid[t].resp.status = 200
                 /\ vid[t].resp.total_frames = vid[t].upload.nframes

\* C15: when /process-video has returned, the reader and the writer it opened
\* are released, on every exit path.
C15_ReaderWriterReleased ==
    Done("v1") => vid["v1"].cap # "open" /\ vid["v1"].out # "open"

\* C16: /process-video calls the segmenter once per frame read when
\* enable_segmentation is set, and never when it is not.
SegmenterCalls(calls) == Cardinality({i \in 1..Len(calls) : calls[i].engine = "segmenter"})
C16_SegmentationFollowsFlag ==
    Done("v1") /\ vid["v1"].resp.status = 200
        => SegmenterCalls(vid["v1"].calls) =
              (IF vid["v1"].enable_segmentation THEN vid["v1"].frames_read ELSE 0)
\* C17: the frame loop passes every frame it read to the detector exactly
\* once, in read order, going on to the next frame only after the call on the
\* one before returned, and the detections it gathers are in non-decreasing
\* order of frame index.
C17_FramesInOrderOnce ==
    \A t \in VideoTasks :
        Done(t) =>
            /\ Len(vid[t].calls) = vid[t].frames_read
            /\ \A i \in 1..Len(vid[t].calls) :
                  /\ vid[t].calls[i].engine = "detector"
                  /\ vid[t].calls[i].frame = i - 1
                  /\ i < Len(vid[t].calls) => vid[t].calls[i].ok
            /\ \A i, j \in 1..Len(vid[t].detections_list) :
                  i < j => vid[t].detections_list[i] <= vid[t].detections_list[j]

C17_Witness ==
    \E t \in VideoTasks :
        /\ Done(t) /\ vid[t].frames_read = 2
        /\ vid[t].detections_list = <<0, 1>>

\* C18: a /process-video request answered 503 leaves the disk as it was and
\* holds no descriptor, reader or writer.
C18_RejectedLeavesNoTrace ==
    [][\A t \in VideoTasks :
         vid[t].pc = "idle" /\ vid'[t].resp.status = 503
            => /\ disk' = disk
               /\ vid'[t].pc = "done"
               /\ vid'[t].fd = "none" /\ vid'[t].cap = "none" /\ vid'[t].out = "none"
               /\ vid'[t].calls = <<>>]_vars

C18_Witness ==
    \E t \in VideoTasks :
        /\ Done(t) /\ vid[t].resp.status = 503 /\ vid[t].upload.readable
        /\ \A p \in Paths : ~disk[p].exists
\* C19: a session sends nothing but detection_results, each in answer to a
\* frame message it read and at most one per such message; reading a message
\* of another kind queues and sends nothing.
C19_OnlyFramesAnswered ==
    /\ [](\A s \in Sessions :
            /\ Len(ws[s].sent) + (IF ws[s].pending # 0 THEN 1 ELSE 0) <= ws[s].ndetect
            /\ ws[s].ndetect <= ws[s].nrecv
            /\ \A i \in 1..Len(ws[s].sent) : ws[s].sent[i].type = "detection_results")
    /\ [][\A s \in Sessions :
            /\ Received(s) /\ ~IsFrameKind(ws'[s].data)
                  => ws'[s].pending = 0 /\ ws'[s].sent = ws[s].sent
                     /\ ws'[s].ndetect = ws[s].ndetect
            /\ ws'[s].ndetect # ws[s].ndetect
                  => Received(s) /\ IsFrameKind(ws'[s].data)
                     /\ ws'[s].ndetect = ws[s].ndetect + 1
            /\ ws'[s].sent # ws[s].sent
                  => IsFrameKind(ws[s].data) /\ Len(ws'[s].sent) = Len(ws[s].sent) + 1]_vars

C19_Witness ==
    \E s \in Sessions :
        /\ ws[s].nrecv = 2 /\ ~IsFrameKind(ws[s].data) /\ ws[s].pc = "open"
        /\ ws[s].sent = <<Response(1)>>

\* C20: only the startup hook writes the engine handles, so a /health
\* response that reported an engine loaded is never followed by one that
\* reports it not loaded, shutdown included.
C20_HandlesWrittenByStartupOnly ==
    /\ [][detector' # detector \/ segmenter' # segmenter
            => startup = "pending" /\ startup' # "pending"]_vars
    /\ [][/\ health.detector_loaded => health'.detector_loaded
          /\ health.segmenter_loaded => health'.segmenter_loaded]_vars
    /\ [](health.status = 200 /\ health.detector_loaded => detector # None)
    /\ [](health.status = 200 /\ health.segmenter_loaded => segmenter # None)

C20_Witness ==
    /\ shutdowns = 2 /\ cleanups.detector = 2
    /\ health.detector_loaded /\ health.segmenter_loaded
    /\ detector = Loaded /\ segmenter = Loaded
    /\ ws["s1"].pc = "closed" /\ ws["s1"].ndetect = 1
====
